---- MODULE Spec2Model ----
(***************************************************************************)
(* Workspace CLI commands (src/zenml/cli/workspace.py) and the pipeline    *)
(* build endpoints (src/zenml/zen_server/routers/                          *)
(* pipeline_builds_endpoints.py), over the registry they delegate to.      *)
(*                                                                         *)
(* The CLI is one process issuing commands one after the other; a          *)
(* `register --set` makes two separate client calls and is two steps.      *)
(* The server handles NumRequests requests concurrently; a handler that    *)
(* makes two store calls is two steps, and other processes may run         *)
(* between them.  Every store call is atomic.                              *)
(*                                                                         *)
(* `last` is the outcome of the operation that ended most recently: what   *)
(* the caller saw.                                                         *)
(*                                                                         *)
(* Two specifications.  SpecCli is the CLI process alone, with every       *)
(* command and every argument.  SpecServer is the concurrent requests      *)
(* together with the CLI commands that change or read the registry the     *)
(* requests read (register, delete, list, describe).  The endpoints        *)
(* neither read nor write the active-workspace pointer, and `workspace     *)
(* set` writes nothing else.                                               *)
(***************************************************************************)
EXTENDS Integers, FiniteSets, Sequences, TLC

\* ---------------------------------------------------------------- bounds
\* Number of workspace ids the store hands out in a run.
MaxWorkspaces == 2
\* Number of build ids the store hands out in a run.
MaxBuilds == 2
\* Number of concurrent server requests.
NumRequests == 2

\* ------------------------------------------------------------- vocabulary
NoWorkspace == "none"
NoDisplayName == "null"
NoFilter == "nofilter"

\* A workspace id, as the literal a caller types.
WsUuid(n) == "uuid-" \o ToString(n)

\* A literal of the id format that the store never hands out.
UuidShapedName == WsUuid(0)

PlainNames == {"a", "b"}
\* The names a caller may give `workspace register`.
Names == PlainNames \cup {"", UuidShapedName}
DisplayNames == {NoDisplayName, "Team"}
WsIds == {WsUuid(n) : n \in 1..MaxWorkspaces}
\* The literals a caller may give as workspace_name_or_id.
NameOrIds == Names \cup WsIds
BuildIds == 1..MaxBuilds
Requests == 1..NumRequests

\* Error kinds.
Ok == "ok"
NotFound == "NotFound"
Conflict == "Conflict"
InvalidArgument == "InvalidArgument"

VARIABLES
    workspaces,   \* the registry's workspaces: records [id, name, display_name]
    nextWsId,     \* the number of the next workspace id
    builds,       \* the registry's builds: records [id, workspace]
    nextBuildId,  \* the next build id
    active,       \* the CLI process's active-workspace pointer (an id)
    cli,          \* the CLI process: where it is in the running command
    req,          \* the server's requests: where each is in its handler
    deleted,      \* per build id, the delete requests answered with success
    last          \* the outcome of the operation that ended last

vars == <<workspaces, nextWsId, builds, nextBuildId, active, cli, req,
          deleted, last>>

\* ------------------------------------------------------ the registry

\* Whether a literal parses as an identifier.
is_valid_uuid(l) == \E n \in 0..MaxWorkspaces : l = WsUuid(n)

\* get(name_or_id): by id if the literal parses as an identifier, else by
\* name.  The set of matches: empty (NotFound) or one workspace.
get_workspace(l) ==
    IF is_valid_uuid(l)
    THEN {w \in workspaces : w.id = l}
    ELSE {w \in workspaces : w.name = l}

\* create(spec): the error it fails with, Ok when it creates.
create_workspace_error(name) ==
    IF name = "" THEN InvalidArgument
    ELSE IF \E w \in workspaces : w.name = name THEN Conflict
    ELSE Ok

\* The workspace create(spec) stores.
create_workspace(name, display_name) ==
    [id |-> WsUuid(nextWsId), name |-> name, display_name |-> display_name]

\* Whether resources depend on workspace w: the builds scoped to it.
has_dependents(w) == \E b \in builds : b.workspace = w.id

\* delete(name_or_id) may be blocked by dependents; the facade leaves the
\* policy to the resource type, so both answers are possible.
delete_blocked(w) == IF has_dependents(w) THEN {TRUE, FALSE} ELSE {FALSE}

\* Reading the current active workspace.
active_workspace == active

\* list(filter) of workspaces: a name filter, or none.
list_workspaces(filter) ==
    IF filter = NoFilter THEN workspaces
    ELSE {w \in workspaces : w.name = filter}

get_build(id) == {b \in builds : b.id = id}

\* The build create(spec) stores.
create_build(workspace) == [id |-> nextBuildId, workspace |-> workspace]

\* list(filter) of builds: scoped to a workspace id, or not.
list_builds(scope) ==
    IF scope = NoWorkspace THEN builds
    ELSE {b \in builds : b.workspace = scope}

\* ------------------------------------------------------ front ends

\* The exit code of a command that ends in cli_utils.error(str(e)): the
\* error kind is reduced to its message, the exit code is click's.
ErrorExit == 1
\* The exit code of a command that ends in an exception nobody catches.
UncaughtExit == 1
SuccessExit == 0

\* handle_exceptions: the status of a response.
Http200 == 200
Http404 == 404
Http409 == 409
Http422 == 422
HttpStatus(err) ==
    CASE err = Ok -> Http200
      [] err = NotFound -> Http404
      [] err = Conflict -> Http409
      [] err = InvalidArgument -> Http422

NoSnapshot == [workspaces |-> {}, active |-> NoWorkspace]
Snapshot == [workspaces |-> workspaces, active |-> active]

\* The CLI process between commands. Within a command it holds the argument,
\* for `register` the registry and pointer before the command, for `list`
\* the workspaces the list call returned.
CliIdle == [pc |-> "idle", arg |-> "", pre |-> NoSnapshot, rows |-> {}]

\* A request slot with no request in it.
ReqIdle == [pc |-> "idle", workspace |-> NoWorkspace, scoped |-> FALSE,
            build_id |-> 0]

\* The outcome of a CLI command: the error kind it ended on, its exit code,
\* the number of client calls it made, the workspace it acted on, what it
\* printed, and for `register` the registry and pointer before it.
CliOutcome(op, arg, setFlag, err, code, calls, ws, out, pre) ==
    [op |-> op, arg |-> arg, set |-> setFlag, err |-> err, code |-> code,
     calls |-> calls, ws |-> ws, out |-> out, pre |-> pre]

\* The response of a request: its error kind and status, the number of
\* store calls the handler made, the workspace of the route, the build ids
\* in the body.
Response(op, arg, err, calls, ws, out) ==
    [op |-> op, arg |-> arg, set |-> FALSE, err |-> err,
     code |-> HttpStatus(err), calls |-> calls, ws |-> ws, out |-> out,
     pre |-> NoSnapshot]

CliOps == {"list", "register", "set", "describe", "delete"}
HttpOps == {"create_build", "list_builds", "get_build", "delete_build"}

\* ------------------------------------------------------ CLI commands

\* workspace list [--name=filter]: the list call. With nothing found the
\* command ends on a message; else it goes on to read the active workspace.
ListWorkspaces(filter) ==
    /\ cli.pc = "idle"
    /\ LET found == list_workspaces(filter)
       IN IF found = {}
          THEN /\ last' = CliOutcome("list", filter, FALSE, Ok, SuccessExit, 1,
                                     NoWorkspace, {}, NoSnapshot)
               /\ UNCHANGED cli
          ELSE /\ cli' = [pc |-> "list_show", arg |-> filter,
                          pre |-> NoSnapshot, rows |-> found]
               /\ UNCHANGED last
    /\ UNCHANGED <<workspaces, nextWsId, builds, nextBuildId, active, req,
                   deleted>>

\* What `workspace list` ends on once workspaces are found: the active
\* workspace is read, filtered list or not, and a read that fails is caught
\* by nobody; else the rows are printed and, when the list is neither sorted
\* nor filtered, the active workspace is passed on to be marked.
ListOutcome(rows, filter) ==
    IF active_workspace = NoWorkspace
    THEN CliOutcome("list", filter, FALSE, NotFound, UncaughtExit, 2,
                    NoWorkspace, {}, NoSnapshot)
    ELSE LET show_active == filter = NoFilter
         IN CliOutcome("list", filter, FALSE, Ok, SuccessExit, 2, NoWorkspace,
                       {w.id : w \in rows}
                          \cup (IF show_active THEN {"*" \o active_workspace}
                                ELSE {}),
                       NoSnapshot)

\* workspace list: the read of the active workspace and the print.
ListWorkspacesShow ==
    /\ cli.pc = "list_show"
    /\ last' = ListOutcome(cli.rows, cli.arg)
    /\ cli' = CliIdle
    /\ UNCHANGED <<workspaces, nextWsId, builds, nextBuildId, active, req,
                   deleted>>

\* workspace register <name> [--display-name] [--set]: the create call.
\* Variant: the except clause drops the error and the command goes on.
RegisterWorkspaceSwallow(workspace_name, display_name, set_workspace) ==
    /\ cli.pc = "idle"
    /\ LET err == create_workspace_error(workspace_name)
           created == create_workspace(workspace_name, display_name)
       IN /\ err = Ok => nextWsId <= MaxWorkspaces
          /\ IF err = Ok
             THEN /\ workspaces' = workspaces \cup {created}
                  /\ nextWsId' = nextWsId + 1
             ELSE UNCHANGED <<workspaces, nextWsId>>
          /\ IF set_workspace
             THEN /\ cli' = [pc |-> "register_set", arg |-> workspace_name,
                             pre |-> Snapshot, rows |-> {}]
                  /\ UNCHANGED last
             ELSE /\ last' = CliOutcome("register", workspace_name, FALSE,
                                        Ok, SuccessExit, 1, NoWorkspace, {},
                                        Snapshot)
                  /\ UNCHANGED cli
    /\ UNCHANGED <<builds, nextBuildId, active, req, deleted>>

\* A failed create ends the command in cli_utils.error.
RegisterWorkspace(workspace_name, display_name, set_workspace) ==
    /\ cli.pc = "idle"
    /\ LET err == create_workspace_error(workspace_name)
           created == create_workspace(workspace_name, display_name)
       IN /\ err = Ok => nextWsId <= MaxWorkspaces
          /\ IF err = Ok
             THEN /\ workspaces' = workspaces \cup {created}
                  /\ nextWsId' = nextWsId + 1
                  /\ IF set_workspace
                     THEN /\ cli' = [pc |-> "register_set",
                                     arg |-> workspace_name,
                                     pre |-> Snapshot, rows |-> {}]
                          /\ UNCHANGED last
                     ELSE /\ last' = CliOutcome("register", workspace_name,
                                                FALSE, Ok, SuccessExit, 1,
                                                created.id, {}, Snapshot)
                          /\ UNCHANGED cli
             ELSE /\ last' = CliOutcome("register", workspace_name,
                                        set_workspace, err, ErrorExit, 1,
                                        NoWorkspace, {}, Snapshot)
                  /\ UNCHANGED <<workspaces, nextWsId, cli>>
    /\ UNCHANGED <<builds, nextBuildId, active, req, deleted>>

\* workspace register --set: the set_active_workspace call after the create,
\* outside the try block.
RegisterSetActive ==
    /\ cli.pc = "register_set"
    /\ LET found == get_workspace(cli.arg)
       IN IF found = {}
          THEN /\ last' = CliOutcome("register", cli.arg, TRUE, NotFound,
                                     UncaughtExit, 2, NoWorkspace, {}, cli.pre)
               /\ UNCHANGED active
          ELSE LET w == CHOOSE w \in found : TRUE
               IN /\ active' = w.id
                  /\ last' = CliOutcome("register", cli.arg, TRUE, Ok,
                                        SuccessExit, 2, w.id, {}, cli.pre)
    /\ cli' = CliIdle
    /\ UNCHANGED <<workspaces, nextWsId, builds, nextBuildId, req, deleted>>

\* workspace set <name-or-id>
\* Variant: a set that fails clears the pointer.
SetWorkspaceClears(workspace_name_or_id) ==
    /\ cli.pc = "idle"
    /\ LET found == get_workspace(workspace_name_or_id)
       IN IF found = {}
          THEN /\ last' = CliOutcome("set", workspace_name_or_id, FALSE,
                                     NotFound, ErrorExit, 1, NoWorkspace, {},
                                     NoSnapshot)
               /\ active' = NoWorkspace
          ELSE LET w == CHOOSE w \in found : TRUE
               IN /\ active' = w.id
                  /\ last' = CliOutcome("set", workspace_name_or_id, FALSE,
                                        Ok, SuccessExit, 1, w.id, {},
                                        NoSnapshot)
    /\ UNCHANGED <<workspaces, nextWsId, builds, nextBuildId, cli, req, deleted>>

SetWorkspace(workspace_name_or_id) ==
    /\ cli.pc = "idle"
    /\ LET found == get_workspace(workspace_name_or_id)
       IN IF found = {}
          THEN /\ last' = CliOutcome("set", workspace_name_or_id, FALSE,
                                     NotFound, ErrorExit, 1, NoWorkspace, {},
                                     NoSnapshot)
               /\ UNCHANGED active
          ELSE LET w == CHOOSE w \in found : TRUE
               IN /\ active' = w.id
                  /\ last' = CliOutcome("set", workspace_name_or_id, FALSE,
                                        Ok, SuccessExit, 1, w.id, {},
                                        NoSnapshot)
    /\ UNCHANGED <<workspaces, nextWsId, builds, nextBuildId, cli, req, deleted>>

\* What `workspace describe` ends on: the active workspace when the argument
\* is absent or empty, else the workspace the argument resolves to; only a
\* KeyError of get_workspace is caught.
DescribeOutcome(workspace_name_or_id) ==
    IF workspace_name_or_id = ""
    THEN IF active_workspace = NoWorkspace
         THEN CliOutcome("describe", "", FALSE, NotFound, UncaughtExit, 1,
                         NoWorkspace, {}, NoSnapshot)
         ELSE CliOutcome("describe", "", FALSE, Ok, SuccessExit, 1,
                         active_workspace, {active_workspace}, NoSnapshot)
    ELSE LET found == get_workspace(workspace_name_or_id)
         IN IF found = {}
            THEN CliOutcome("describe", workspace_name_or_id, FALSE, NotFound,
                            ErrorExit, 1, NoWorkspace, {}, NoSnapshot)
            ELSE CliOutcome("describe", workspace_name_or_id, FALSE, Ok,
                            SuccessExit, 1, (CHOOSE w \in found : TRUE).id,
                            {w.id : w \in found}, NoSnapshot)

\* workspace describe [name-or-id]
\* Variant: the workspace described becomes the active one.
DescribeWorkspaceSetsActive(workspace_name_or_id) ==
    /\ cli.pc = "idle"
    /\ last' = DescribeOutcome(workspace_name_or_id)
    /\ active' = IF last'.err = Ok THEN last'.ws ELSE active
    /\ UNCHANGED <<workspaces, nextWsId, builds, nextBuildId, cli, req, deleted>>

DescribeWorkspace(workspace_name_or_id) ==
    /\ cli.pc = "idle"
    /\ last' = DescribeOutcome(workspace_name_or_id)
    /\ UNCHANGED <<workspaces, nextWsId, builds, nextBuildId, active, cli,
                   req, deleted>>

\* workspace delete <name-or-id>
\* Variant: the except clause drops the error and the command reports the
\* delete as done.
DeleteWorkspaceSwallow(workspace_name_or_id) ==
    /\ cli.pc = "idle"
    /\ LET found == get_workspace(workspace_name_or_id)
       IN IF found = {}
          THEN /\ last' = CliOutcome("delete", workspace_name_or_id, FALSE,
                                     Ok, SuccessExit, 1, NoWorkspace, {},
                                     NoSnapshot)
               /\ UNCHANGED workspaces
          ELSE LET w == CHOOSE w \in found : TRUE
               IN \E blocked \in delete_blocked(w) :
                    /\ workspaces' = IF blocked THEN workspaces
                                     ELSE workspaces \ {w}
                    /\ last' = CliOutcome("delete", workspace_name_or_id,
                                          FALSE, Ok, SuccessExit, 1, w.id, {},
                                          NoSnapshot)
    /\ UNCHANGED <<nextWsId, builds, nextBuildId, active, cli, req, deleted>>

DeleteWorkspace(workspace_name_or_id) ==
    /\ cli.pc = "idle"
    /\ LET found == get_workspace(workspace_name_or_id)
       IN IF found = {}
          THEN /\ last' = CliOutcome("delete", workspace_name_or_id, FALSE,
                                     NotFound, ErrorExit, 1, NoWorkspace, {},
                                     NoSnapshot)
               /\ UNCHANGED workspaces
          ELSE LET w == CHOOSE w \in found : TRUE
               IN \E blocked \in delete_blocked(w) :
                    IF blocked
                    THEN /\ last' = CliOutcome("delete", workspace_name_or_id,
                                               FALSE, Conflict, ErrorExit, 1,
                                               w.id, {}, NoSnapshot)
                         /\ UNCHANGED workspaces
                    ELSE /\ workspaces' = workspaces \ {w}
                         /\ last' = CliOutcome("delete", workspace_name_or_id,
                                               FALSE, Ok, SuccessExit, 1,
                                               w.id, {}, NoSnapshot)
    /\ UNCHANGED <<nextWsId, builds, nextBuildId, active, cli, req, deleted>>

\* ------------------------------------------------------ build endpoints

\* POST /builds and POST /workspaces/{workspace_name_or_id}/builds: the
\* resolution of the workspace, whose id replaces the workspace of the body.
\* Variant: a workspace that does not resolve leaves the body as it is.
CreateBuildIgnoresMissing(r, build, workspace_name_or_id) ==
    /\ req[r].pc = "idle"
    /\ LET found == get_workspace(workspace_name_or_id)
       IN req' = [req EXCEPT ![r] =
            [pc |-> "create_build",
             workspace |-> IF found = {} THEN build
                           ELSE (CHOOSE w \in found : TRUE).id,
             scoped |-> workspace_name_or_id # "", build_id |-> 0]]
    /\ UNCHANGED <<workspaces, nextWsId, builds, nextBuildId, active, cli,
                   deleted, last>>

CreateBuild(r, build, workspace_name_or_id) ==
    /\ req[r].pc = "idle"
    /\ IF workspace_name_or_id # ""
       THEN LET found == get_workspace(workspace_name_or_id)
            IN IF found = {}
               THEN /\ last' = Response("create_build", workspace_name_or_id,
                                        NotFound, 1, NoWorkspace, {})
                    /\ UNCHANGED req
               ELSE LET workspace == CHOOSE w \in found : TRUE
                    IN /\ req' = [req EXCEPT ![r] =
                             [pc |-> "create_build",
                              workspace |-> workspace.id,
                              scoped |-> TRUE, build_id |-> 0]]
                       /\ UNCHANGED last
       ELSE /\ req' = [req EXCEPT ![r] =
                  [pc |-> "create_build", workspace |-> build,
                   scoped |-> FALSE, build_id |-> 0]]
            /\ UNCHANGED last
    /\ UNCHANGED <<workspaces, nextWsId, builds, nextBuildId, active, cli,
                   deleted>>

\* create_build: verify_permissions_and_create_entity calls the store's
\* create_build on the request.
CreateBuildStore(r) ==
    /\ req[r].pc = "create_build"
    /\ nextBuildId <= MaxBuilds
    /\ builds' = builds \cup {create_build(req[r].workspace)}
    /\ nextBuildId' = nextBuildId + 1
    /\ last' = Response("create_build", "", Ok,
                        IF req[r].scoped THEN 2 ELSE 1,
                        IF req[r].scoped THEN req[r].workspace ELSE NoWorkspace,
                        {nextBuildId})
    /\ req' = [req EXCEPT ![r] = ReqIdle]
    /\ UNCHANGED <<workspaces, nextWsId, active, cli, deleted>>

\* GET /builds and GET /workspaces/{workspace_name_or_id}/builds: the
\* resolution of the workspace, whose id scopes the filter.
\* Variant: the workspace is resolved and the filter is left unscoped.
ListBuildsUnscoped(r, workspace_name_or_id) ==
    /\ req[r].pc = "idle"
    /\ IF workspace_name_or_id # "" /\ get_workspace(workspace_name_or_id) = {}
       THEN /\ last' = Response("list_builds", workspace_name_or_id,
                                NotFound, 1, NoWorkspace, {})
            /\ UNCHANGED req
       ELSE /\ req' = [req EXCEPT ![r] =
                  [pc |-> "list_builds", workspace |-> NoWorkspace,
                   scoped |-> workspace_name_or_id # "", build_id |-> 0]]
            /\ UNCHANGED last
    /\ UNCHANGED <<workspaces, nextWsId, builds, nextBuildId, active, cli,
                   deleted>>

ListBuilds(r, workspace_name_or_id) ==
    /\ req[r].pc = "idle"
    /\ IF workspace_name_or_id # ""
       THEN LET found == get_workspace(workspace_name_or_id)
            IN IF found = {}
               THEN /\ last' = Response("list_builds", workspace_name_or_id,
                                        NotFound, 1, NoWorkspace, {})
                    /\ UNCHANGED req
               ELSE LET workspace == CHOOSE w \in found : TRUE
                    IN /\ req' = [req EXCEPT ![r] =
                             [pc |-> "list_builds",
                              workspace |-> workspace.id,
                              scoped |-> TRUE, build_id |-> 0]]
                       /\ UNCHANGED last
       ELSE /\ req' = [req EXCEPT ![r] =
                  [pc |-> "list_builds", workspace |-> NoWorkspace,
                   scoped |-> FALSE, build_id |-> 0]]
            /\ UNCHANGED last
    /\ UNCHANGED <<workspaces, nextWsId, builds, nextBuildId, active, cli,
                   deleted>>

\* list_builds: verify_permissions_and_list_entities calls the store's
\* list_builds on the filter.
ListBuildsStore(r) ==
    /\ req[r].pc = "list_builds"
    /\ last' = Response("list_builds", "", Ok,
                        IF req[r].scoped THEN 2 ELSE 1, req[r].workspace,
                        {b.id : b \in list_builds(req[r].workspace)})
    /\ req' = [req EXCEPT ![r] = ReqIdle]
    /\ UNCHANGED <<workspaces, nextWsId, builds, nextBuildId, active, cli,
                   deleted>>

\* GET /builds/{build_id}
GetBuild(r, build_id) ==
    /\ req[r].pc = "idle"
    /\ LET found == get_build(build_id)
       IN last' = Response("get_build", ToString(build_id),
                           IF found = {} THEN NotFound ELSE Ok, 1,
                           NoWorkspace, {b.id : b \in found})
    /\ UNCHANGED <<workspaces, nextWsId, builds, nextBuildId, active, cli,
                   req, deleted>>

\* DELETE /builds/{build_id}: verify_permissions_and_delete_entity gets the
\* build first.
DeleteBuild(r, build_id) ==
    /\ req[r].pc = "idle"
    /\ IF get_build(build_id) = {}
       THEN /\ last' = Response("delete_build", ToString(build_id), NotFound,
                                1, NoWorkspace, {})
            /\ UNCHANGED req
       ELSE /\ req' = [req EXCEPT ![r] =
                  [pc |-> "delete_build", workspace |-> NoWorkspace,
                   scoped |-> FALSE, build_id |-> build_id]]
            /\ UNCHANGED last
    /\ UNCHANGED <<workspaces, nextWsId, builds, nextBuildId, active, cli,
                   deleted>>

\* delete_build: then the store's delete_build on the id.
\* Variant: a delete of a build that is gone is answered with success.
DeleteBuildStoreIgnoresMissing(r) ==
    /\ req[r].pc = "delete_build"
    /\ builds' = builds \ get_build(req[r].build_id)
    /\ deleted' = [deleted EXCEPT ![req[r].build_id] = @ + 1]
    /\ last' = Response("delete_build", ToString(req[r].build_id), Ok, 2,
                        NoWorkspace, {})
    /\ req' = [req EXCEPT ![r] = ReqIdle]
    /\ UNCHANGED <<workspaces, nextWsId, nextBuildId, active, cli>>

DeleteBuildStore(r) ==
    /\ req[r].pc = "delete_build"
    /\ LET found == get_build(req[r].build_id)
       IN IF found = {}
          THEN /\ last' = Response("delete_build", ToString(req[r].build_id),
                                   NotFound, 2, NoWorkspace, {})
               /\ UNCHANGED <<builds, deleted>>
          ELSE /\ builds' = builds \ found
               /\ deleted' = [deleted EXCEPT ![req[r].build_id] = @ + 1]
               /\ last' = Response("delete_build", ToString(req[r].build_id),
                                   Ok, 2, NoWorkspace, {})
    /\ req' = [req EXCEPT ![r] = ReqIdle]
    /\ UNCHANGED <<workspaces, nextWsId, nextBuildId, active, cli>>

\* ------------------------------------------------------ specifications

Init ==
    /\ workspaces = {}
    /\ nextWsId = 1
    /\ builds = {}
    /\ nextBuildId = 1
    /\ active = NoWorkspace
    /\ cli = CliIdle
    /\ req = [r \in Requests |-> ReqIdle]
    /\ deleted = [b \in BuildIds |-> 0]
    /\ last = CliOutcome("none", "", FALSE, Ok, SuccessExit, 0, NoWorkspace,
                         {}, NoSnapshot)

\* The CLI process alone.
NextCli ==
    \/ \E filter \in {NoFilter} \cup PlainNames : ListWorkspaces(filter)
    \/ ListWorkspacesShow
    \/ \E n \in Names, d \in DisplayNames, s \in BOOLEAN :
          RegisterWorkspace(n, d, s)
    \/ RegisterSetActive
    \/ \E l \in NameOrIds : SetWorkspace(l)
    \/ \E l \in NameOrIds : DescribeWorkspace(l)
    \/ \E l \in NameOrIds : DeleteWorkspace(l)

SpecCli == Init /\ [][NextCli]_vars

\* The arguments of SpecServer: the names and one id for a workspace, the
\* empty literal for the routes without a workspace, and a body that names
\* no workspace or another one than the route's.
RegistryRefs == PlainNames \cup {WsUuid(1)}
RouteRefs == RegistryRefs \cup {""}
BodyWorkspaces == {NoWorkspace, WsUuid(MaxWorkspaces)}
DescribeRefs == {"", "a"}
Filters == {NoFilter, "a"}

\* The requests, and the CLI commands that change the registry they read.
\* No command here sets or reads the active pointer.
NextServer ==
    \/ \E n \in PlainNames : RegisterWorkspace(n, NoDisplayName, FALSE)
    \/ \E l \in RegistryRefs : DeleteWorkspace(l)
    \/ \E r \in Requests, b \in BodyWorkspaces, l \in RouteRefs :
          CreateBuild(r, b, l)
    \/ \E r \in Requests : CreateBuildStore(r)
    \/ \E r \in Requests, l \in RouteRefs : ListBuilds(r, l)
    \/ \E r \in Requests : ListBuildsStore(r)
    \/ \E r \in Requests, b \in BuildIds : GetBuild(r, b)
    \/ \E r \in Requests, b \in BuildIds : DeleteBuild(r, b)
    \/ \E r \in Requests : DeleteBuildStore(r)

SpecServer == Init /\ [][NextServer]_vars

\* Both front ends whole: the reads, with every command and request that
\* makes what they read: workspaces registered, set active and deleted,
\* builds created with and without a workspace and deleted.
NextReads ==
    \/ \E filter \in Filters : ListWorkspaces(filter)
    \/ ListWorkspacesShow
    \/ \E l \in DescribeRefs : DescribeWorkspace(l)
    \/ \E n \in PlainNames, s \in BOOLEAN :
          RegisterWorkspace(n, NoDisplayName, s)
    \/ RegisterSetActive
    \/ \E l \in RegistryRefs : SetWorkspace(l)
    \/ \E l \in RegistryRefs : DeleteWorkspace(l)
    \/ \E r \in Requests, l \in RouteRefs : CreateBuild(r, NoWorkspace, l)
    \/ \E r \in Requests : CreateBuildStore(r)
    \/ \E r \in Requests, l \in RouteRefs : ListBuilds(r, l)
    \/ \E r \in Requests : ListBuildsStore(r)
    \/ \E r \in Requests, b \in BuildIds : GetBuild(r, b)
    \/ \E r \in Requests, b \in BuildIds : DeleteBuild(r, b)
    \/ \E r \in Requests : DeleteBuildStore(r)

SpecReads == Init /\ [][NextReads]_vars

\* ------------------------------------------------------ properties

Present(id) == \E w \in workspaces : w.id = id

\* C1: `workspace register <name> --set` is all or nothing: when the command
\* has ended, either it succeeded and the workspace of that name exists and
\* is the active one, or the registry and the active pointer are what they
\* were before the command.
C1_RegisterSetAtomic ==
    (cli.pc = "idle" /\ last.op = "register" /\ last.set) =>
        \/ /\ last.err = Ok
           /\ \E w \in workspaces : w.name = last.arg /\ active = w.id
        \/ /\ workspaces = last.pre.workspaces
           /\ active = last.pre.active

\* C2: the active pointer changes only in a step that ends a successful
\* set_active (of `workspace set` or `workspace register --set`), to the
\* workspace the argument resolves to; and as long as a successful
\* set_active is the last command that ended, reading the active workspace
\* (`workspace describe` with no argument, the mark of `workspace list`)
\* shows that workspace.
C2_ActiveUntilNextSet ==
    [][ /\ active' # active =>
              /\ last'.op \in {"set", "register"}
              /\ last'.op = "register" => last'.set
              /\ last'.err = Ok
              /\ last'.ws = active'
              /\ \E w \in get_workspace(last'.arg) : w.id = active'
        /\ ( /\ last'.op \in {"set", "register"}
             /\ last'.op = "register" => last'.set
             /\ last'.err = Ok ) =>
              /\ (DescribeOutcome(""))'.err = Ok
              /\ (DescribeOutcome(""))'.out = {last'.ws}
              /\ (ListOutcome(list_workspaces(NoFilter), NoFilter))'.err = Ok
              /\ ("*" \o last'.ws)
                    \in (ListOutcome(list_workspaces(NoFilter), NoFilter))'.out
      ]_vars

\* C2: a set succeeded, other commands ran, and reading the active workspace
\* shows a workspace.
C2_Witness ==
    /\ last.op = "describe" /\ last.arg = "" /\ last.err = Ok
    /\ last.out = {active}

\* C4: names are unique, and a `register` of a name that exists ends in
\* Conflict, with a failure exit code, and leaves the registry as it was.
C4_DuplicateNameConflict ==
    [][ /\ \A n \in Names, d \in DisplayNames, s \in BOOLEAN :
              (RegisterWorkspace(n, d, s) /\ \E w \in workspaces : w.name = n)
              => /\ last'.op = "register" /\ last'.arg = n
                 /\ last'.err = Conflict
                 /\ last'.code # SuccessExit
                 /\ workspaces' = workspaces
                 /\ cli'.pc = "idle"
        /\ \A v, w \in workspaces' : v.name = w.name => v = w
      ]_vars

\* C4: a register ended in Conflict and the one workspace of that name is
\* there, with a display name.
C4_Witness ==
    /\ last.op = "register" /\ last.err = Conflict
    /\ Cardinality({w \in workspaces : w.name = last.arg}) = 1
    /\ \E w \in workspaces : w.name = last.arg /\ w.display_name = "Team"

\* C6: the exit code of a command and the status of a response tell the
\* error kind: 0 / 200 for success, 2 / 404 for NotFound, 1 / 409 for
\* Conflict, 1 / 422 for InvalidArgument.
C6_ErrorKindPreserved ==
    /\ last.op \in CliOps =>
          last.code = CASE last.err = Ok -> 0
                        [] last.err = NotFound -> 2
                        [] last.err = Conflict -> 1
                        [] last.err = InvalidArgument -> 1
    /\ last.op \in HttpOps =>
          last.code = CASE last.err = Ok -> 200
                        [] last.err = NotFound -> 404
                        [] last.err = Conflict -> 409
                        [] last.err = InvalidArgument -> 422

\* C9: the active pointer, once set, refers to a workspace of the registry.
C9_ActivePresent == active # NoWorkspace => Present(active)

\* A step of the CLI process that ends a command.
CliEnds(op) == cli.pc = "idle" /\ last'.op = op

\* A step of the CLI process out of the list call of `workspace list`.
ListStarts ==
    cli.pc = "idle" /\ (cli'.pc = "list_show" \/ last'.op = "list")

\* A step of request r out of its handler's first store call.
Starts(r, op) ==
    req[r].pc = "idle" /\ (req'[r].pc = op \/ last'.op = op)

\* C3: a delete that succeeds removes what its argument resolved to, so that
\* a get of the same argument finds nothing, and nothing deleted is ever
\* found again; a delete of what is not there ends in NotFound, not in
\* success, and a delete that fails leaves the registry as it was.
C3_DeleteThenGetNotFound ==
    [][ /\ \A l \in RegistryRefs :
              (CliEnds("delete") /\ DeleteWorkspace(l)) =>
                 /\ get_workspace(l) = {} =>
                       last'.err = NotFound /\ last'.code # SuccessExit
                 /\ last'.err = Ok =>
                       get_workspace(l) # {} /\ (get_workspace(l))' = {}
                 /\ last'.err # Ok => workspaces' = workspaces
        /\ \A r \in Requests, b \in BuildIds :
              (Starts(r, "delete_build") /\ DeleteBuild(r, b)
                 /\ get_build(b) = {}) =>
                 /\ last'.err = NotFound /\ last'.code = Http404
                 /\ builds' = builds /\ req'[r].pc = "idle"
        /\ \A r \in Requests :
              (req[r].pc = "delete_build" /\ DeleteBuildStore(r)) =>
                 /\ get_build(req[r].build_id) = {} =>
                       last'.err = NotFound /\ last'.code = Http404
                 /\ last'.err = Ok =>
                       /\ get_build(req[r].build_id) # {}
                       /\ (get_build(req[r].build_id))' = {}
                 /\ last'.err # Ok => builds' = builds
        /\ \A b \in BuildIds : deleted'[b] > 0 => (get_build(b))' = {}
        /\ \A b \in builds' : b.id < nextBuildId'
        /\ (last'.op = "get_build" /\ last'.err = Ok) =>
              \A b \in last'.out : deleted'[b] = 0
      ]_vars

\* C3: a build was deleted with success and a later get of it ended in
\* NotFound.
C3_Witness ==
    /\ last.op = "get_build" /\ last.err = NotFound /\ last.code = Http404
    /\ \E b \in BuildIds : last.arg = ToString(b) /\ deleted[b] = 1

\* C5: the scoped routes resolve the workspace and use its id: the build is
\* stored with the id of the workspace of the route, whatever the body says,
\* and the page of a scoped list is the builds of that workspace, all of
\* them and no other.
C5_ScopedBuilds ==
    [][ /\ \A r \in Requests, b \in BodyWorkspaces, l \in RouteRefs :
              (Starts(r, "create_build") /\ CreateBuild(r, b, l) /\ l # ""
                 /\ get_workspace(l) # {}) =>
                 /\ req'[r].pc = "create_build" /\ req'[r].scoped
                 /\ \E w \in get_workspace(l) : req'[r].workspace = w.id
        /\ \A r \in Requests :
              (req[r].pc = "create_build" /\ CreateBuildStore(r)
                 /\ req[r].scoped) =>
                 /\ builds' = builds \cup
                       {[id |-> nextBuildId, workspace |-> req[r].workspace]}
                 /\ last'.err = Ok /\ last'.ws = req[r].workspace
                 /\ last'.out = {nextBuildId}
        /\ \A r \in Requests, l \in RouteRefs :
              (Starts(r, "list_builds") /\ ListBuilds(r, l) /\ l # ""
                 /\ get_workspace(l) # {}) =>
                 /\ req'[r].pc = "list_builds" /\ req'[r].scoped
                 /\ \E w \in get_workspace(l) : req'[r].workspace = w.id
        /\ \A r \in Requests :
              (req[r].pc = "list_builds" /\ ListBuildsStore(r)
                 /\ req[r].scoped) =>
                 /\ last'.err = Ok /\ last'.ws = req[r].workspace
                 /\ \A b \in builds :
                       b.id \in last'.out <=> b.workspace = req[r].workspace
                 /\ last'.out \subseteq {b.id : b \in builds}
      ]_vars

\* C5: a scoped list returned a build of its workspace while a build of
\* another workspace is in the registry.
C5_Witness ==
    /\ last.op = "list_builds" /\ last.err = Ok /\ last.ws # NoWorkspace
    /\ \E b \in builds : b.id \in last.out /\ b.workspace = last.ws
    /\ \E b \in builds : b.id \notin last.out /\ b.workspace \in WsIds

\* C7: the reads change nothing: every step of `workspace list`, `workspace
\* describe`, list_builds and get_build leaves the workspaces, the builds
\* with their workspaces and the active pointer, set or not, as they were,
\* whether the read succeeds, finds nothing or fails; and an empty result is
\* a success with nothing in it.
C7_ReadsArePure ==
    [][ /\ ( \/ ListStarts /\ \E f \in Filters : ListWorkspaces(f)
             \/ cli.pc = "list_show" /\ ListWorkspacesShow
             \/ CliEnds("describe") /\ \E l \in DescribeRefs : DescribeWorkspace(l)
             \/ \E r \in Requests :
                  \/ Starts(r, "list_builds") /\ \E l \in RouteRefs : ListBuilds(r, l)
                  \/ req[r].pc = "list_builds" /\ ListBuildsStore(r)
                  \/ Starts(r, "get_build") /\ \E b \in BuildIds : GetBuild(r, b)
           ) => UNCHANGED <<workspaces, nextWsId, builds, nextBuildId, active,
                            deleted>>
        /\ \A f \in Filters :
              (ListStarts /\ ListWorkspaces(f)
                 /\ list_workspaces(f) = {}) =>
                 /\ last'.op = "list" /\ cli'.pc = "idle"
                 /\ last'.err = Ok /\ last'.code = SuccessExit
                 /\ last'.out = {}
        /\ \A r \in Requests :
              (req[r].pc = "list_builds" /\ ListBuildsStore(r)
                 /\ list_builds(req[r].workspace) = {}) =>
                 last'.err = Ok /\ last'.code = Http200 /\ last'.out = {}
      ]_vars

\* C7: with a workspace active and a build stored in it, `workspace list`
\* succeeded and showed the workspaces with the active one marked.
C7_Witness ==
    /\ last.op = "list" /\ last.err = Ok /\ last.calls = 2
    /\ active # NoWorkspace /\ ("*" \o active) \in last.out
    /\ \E w \in workspaces : w.id = active /\ w.id \in last.out
    /\ \E b \in builds : b.workspace = active

\* C8: each build is deleted at most once: at most one delete request per
\* build is answered with success, exactly when the build was there and is
\* gone, and every other delete request ends in NotFound.
C8_DeletedExactlyOnce ==
    /\ \A b \in BuildIds :
          /\ deleted[b] <= 1
          /\ deleted[b] = 1 <=> (b < nextBuildId /\ get_build(b) = {})
    /\ last.op = "delete_build" =>
          /\ last.err \in {Ok, NotFound}
          /\ last.code = IF last.err = Ok THEN Http200 ELSE Http404

\* C8: a delete request got the build, and its delete call on the store then
\* ended in NotFound: another request had deleted the build in between.
C8_Witness ==
    /\ last.op = "delete_build" /\ last.err = NotFound /\ last.calls = 2
    /\ \E b \in BuildIds : last.arg = ToString(b) /\ deleted[b] = 1

\* An unresolvable workspace ends a scoped create or list in NotFound before
\* the store is asked for builds.
UnresolvedIsNotFound ==
    /\ \A r \in Requests, b \in BodyWorkspaces, l \in RouteRefs :
          (Starts(r, "create_build") /\ CreateBuild(r, b, l) /\ l # ""
             /\ get_workspace(l) = {}) =>
             /\ last'.op = "create_build" /\ last'.err = NotFound
             /\ last'.code = Http404 /\ last'.calls = 1
             /\ req'[r].pc = "idle"
             /\ builds' = builds /\ nextBuildId' = nextBuildId
    /\ \A r \in Requests, l \in RouteRefs :
          (Starts(r, "list_builds") /\ ListBuilds(r, l) /\ l # ""
             /\ get_workspace(l) = {}) =>
             /\ last'.op = "list_builds" /\ last'.err = NotFound
             /\ last'.code = Http404 /\ last'.calls = 1
             /\ req'[r].pc = "idle"

\* C10, as claimed: an unresolvable workspace ends the scoped routes in
\* NotFound before the store is asked for builds, and a build created
\* through the scoped route references a workspace that is in the registry
\* when the build is stored.
C10_WorkspaceExistsWhenStored ==
    [][ /\ UnresolvedIsNotFound
        /\ \A r \in Requests :
              (req[r].pc = "create_build" /\ CreateBuildStore(r)
                 /\ req[r].scoped) =>
                 \A b \in builds' \ builds : \E w \in workspaces' :
                    w.id = b.workspace
      ]_vars

\* C10, amended: an unresolvable workspace ends the scoped routes in NotFound
\* before the store is asked for builds, and a build created through the
\* scoped route references the workspace that the route resolved to, which
\* was in the registry when it was resolved.
C10_WorkspaceExistsWhenResolved ==
    [][ /\ UnresolvedIsNotFound
        /\ \A r \in Requests :
              (req[r].pc = "idle" /\ req'[r].pc = "create_build"
                 /\ req'[r].scoped) =>
                 \E w \in workspaces : w.id = req'[r].workspace
        /\ \A r \in Requests :
              (req[r].pc = "create_build" /\ CreateBuildStore(r)
                 /\ req[r].scoped) =>
                 \A b \in builds' \ builds : b.workspace = req[r].workspace
      ]_vars

\* C10: a scoped create of an unresolvable workspace ended in NotFound after
\* one store call, while a request that resolved its workspace waits to
\* store its build and that workspace is gone.
C10_Witness ==
    /\ last.op = "create_build" /\ last.err = NotFound /\ last.calls = 1
    /\ \E r \in Requests :
          /\ req[r].pc = "create_build" /\ req[r].scoped
          /\ ~Present(req[r].workspace)

====
